---- MODULE Spec2Model ----
(* Region resolution, client caching and the one-retry upload protocol of   *)
(* src/scanService.ts (ensureRegion, getS3Client, persistScanResult), as a  *)
(* state machine over the module-level cache (resolvedRegion, s3Client) and *)
(* a bounded number of writes that interleave at their await points.        *)
EXTENDS Naturals, Integers, Sequences, FiniteSets, TLC

(* ------------------------------------------------------------------ *)
(* Bounds                                                              *)
(* ------------------------------------------------------------------ *)

\* number of persistScanResult calls made during the life of the process
MaxWrites == 2

\* number of sends (lookups and puts together) the storage provider rejects
MaxFaults == 2

Writes == 1..MaxWrites

(* ------------------------------------------------------------------ *)
(* Values                                                              *)
(* ------------------------------------------------------------------ *)

\* JavaScript null / undefined
NoVal == "<null>"

\* values of preferredRegion after the optionalEnv chain ('' = not configured)
PreferredRegions == {"", "us-east-1", "EU", "ap-southeast-1"}

\* LocationConstraint values GetBucketLocation answers with for the bucket
BucketLocations == {NoVal, "EU"}

\* errors a send() can reject with: name, message, $metadata.httpStatusCode
\* (message NoVal: no message; status 0: no $metadata)
ErrStatusOnly == [name |-> "UnknownError", message |-> NoVal, status |-> 301]
ErrMsgOnly    == [name |-> "Error", message |-> "Custom endpoint is not compatible", status |-> 400]
ErrDenied     == [name |-> "AccessDenied", message |-> "Access Denied", status |-> 403]
ErrTimeout    == [name |-> "TimeoutError", message |-> "socket hang up", status |-> 0]

\* two rejections that carry one mismatch signature each (status, message)
\* and one that carries none; no error of the model carries the name
\* 'PermanentRedirect'
PutErrors == {ErrStatusOnly, ErrMsgOnly, ErrDenied}
DiscoveryErrors == {ErrTimeout}

\* request images: an optional data-URL header followed by base64 text
DataUrlHeaders == {"data:image/png;base64,", "data:image/jpeg;base64,"}

\* the image of the n-th request: bare base64 and data URLs alternate
ImageOf(n) == IF n % 2 = 1 THEN <<"data:image/png;base64,", "eHl6">> ELSE <<"QUJD">>

\* req.method of the requests that reach the handler
Methods == {"POST", "GET"}

\* the image field of a request body: what typeof gives, and the text of a
\* string (header and base64 part, <<>> for the empty string)
ImgMissing == [type |-> "undefined", text |-> <<>>]
ImgEmpty   == [type |-> "string", text |-> <<>>]
ImgNumber  == [type |-> "number", text |-> <<"123">>]
ImgString(text) == [type |-> "string", text |-> text]

\* errors analyzeImage throws: the provider call rejects, or line 230
ErrUnreachable == [name |-> "ApiError", message |-> "fetch failed", status |-> 0]
ErrNoData      == [name |-> "Error", message |-> "Khong nhan duoc du lieu tu may quet.", status |-> 0]
AnalysisErrors == {ErrUnreachable, ErrNoData}

\* const bucket = requireEnv('S3_BUCKET')
bucket == "face-bucket"

(* ------------------------------------------------------------------ *)
(* Pure functions                                                      *)
(* ------------------------------------------------------------------ *)

\* JavaScript truthiness of a string-or-null value
Truthy(value) == value # NoVal /\ value # ""

\* the legacy alias passed through like any other value
normalizeRegionNoAlias(value) ==
    IF ~Truthy(value) \/ value = "us-east-1" THEN "us-east-1" ELSE value

normalizeRegion(value) ==
    IF ~Truthy(value) \/ value = "us-east-1" THEN "us-east-1"
    ELSE IF value = "EU" THEN "eu-west-1"
    ELSE value

\* String.prototype.includes('endpoint') on the messages of the model
IncludesEndpoint(message) == message \in {"Custom endpoint is not compatible"}

\* the status test widened to every status from 301 up
isRegionMismatchLoose(error) ==
    \/ (error.message # NoVal /\ IncludesEndpoint(error.message))
    \/ error.name = "PermanentRedirect"
    \/ error.status >= 301

isRegionMismatch(error) ==
    \/ (error.message # NoVal /\ IncludesEndpoint(error.message))
    \/ error.name = "PermanentRedirect"
    \/ error.status = 301

Base64Decode(text) ==
    CASE text = "QUJD" -> "ABC"
      [] text = "eHl6" -> "xyz"
      [] OTHER -> ""

base64ToBuffer(base64Image) ==
    LET clean == IF Head(base64Image) \in DataUrlHeaders
                 THEN Tail(base64Image) ELSE base64Image
    IN  Base64Decode(Head(clean))

\* new S3Client({ region, credentials }): the region it is bound to, and who
\* built it (0: getS3Client, w: the retry path of write w)
NewClient(r, maker) == [region |-> r, by |-> maker]

\* null in a variable that holds a client, an object key, a result
NoClient == [region |-> NoVal, by |-> -1]
NoKey == [folder |-> NoVal, id |-> 0]
NoResult == [kind |-> "none"]

\* how a PutObject send stands
Pending == [kind |-> "pending"]
Sent == [kind |-> "ok"]
Rejected(error) == [kind |-> "error", error |-> error]

\* !image for the image fields of the model
ImageFalsy(image) ==
    \/ image.type = "undefined"
    \/ (image.type = "string" /\ image.text = <<>>)

\* the type test left out
ImageRejectedFalsyOnly(image) == ImageFalsy(image)

\* scan.ts lines 15 and 60: !image || typeof image !== 'string'
ImageRejected(image) == ImageFalsy(image) \/ image.type # "string"

\* what a resolved analyzeImage returns: the parsed answer of the provider
\* for the image without its data-URL header (lines 193-196, 233)
analyzeImage(base64Image) ==
    LET cleanBase64 == IF Head(base64Image) \in DataUrlHeaders
                       THEN Tail(base64Image) ELSE base64Image
    IN  [archetype |-> Head(cleanBase64)]

\* error instanceof Error: the rejections of the model that carry a message
\* are Error objects, the one without is a bare rejection value
InstanceOfError(error) == error.message # NoVal

\* scan.ts lines 26-27 and 70-71
ErrorDetail(error) ==
    IF InstanceOfError(error) THEN error.message ELSE "Khong the xu ly yeu cau."

\* the region-qualified host for every region, the baseline included
domainRegional(region) == <<"s3", region, "amazonaws", "com">>

\* lines 240-243: const domain
domain(region) ==
    IF region = "us-east-1" THEN <<"s3", "amazonaws", "com">>
    ELSE <<"s3", region, "amazonaws", "com">>

\* line 244: https://${bucket}.${domain}/${imageKey}
s3Url(region, imageKey) ==
    [scheme |-> "https", host |-> <<bucket>> \o domain(region), path |-> imageKey]

\* lines 246-250: what handleScan returns
ScanResult(analysis, imageKey, region) ==
    [analysis |-> analysis, recordId |-> imageKey, s3Url |-> s3Url(region, imageKey)]

\* the responses of the handler; NoResponse: nothing sent yet
NoResponse == [status |-> 0]
MethodNotAllowed == [status |-> 405, allow |-> "POST", detail |-> "Method Not Allowed"]
BadRequest == [status |-> 400, detail |-> "Thieu du lieu anh base64."]
OkResponse(scan) ==
    [status |-> 200, analysis |-> scan.analysis, recordId |-> scan.recordId,
     s3Url |-> scan.s3Url]

\* the failure answered as a success
HandlerCatchOk(error) == [status |-> 200, detail |-> ErrorDetail(error)]

\* scan.ts lines 24-29 and 68-73: the catch block of the handler
HandlerCatch(error) == [status |-> 500, detail |-> ErrorDetail(error)]

\* no request, no thrown error
NoRequest == [method |-> NoVal, image |-> ImgMissing]
NoError == [name |-> NoVal, message |-> NoVal, status |-> 0]

(* ------------------------------------------------------------------ *)
(* State                                                               *)
(* ------------------------------------------------------------------ *)

VARIABLES
    preferredRegion,  \* configuration: the fixed region, '' when none
    bucketLocation,   \* environment: the bucket's LocationConstraint
    resolvedRegion,   \* module-level cache, NoVal when null
    s3Client,         \* module-level cache, NoClient when null
    pc,               \* position of each write
    objectKey,        \* const objectKey of each write
    body,             \* const body of each write
    ret,              \* value an ensureRegion call returned to the write, until the
                      \* write resumes and takes it
    region,           \* let region of each write
    client,           \* let client of each write
    result,           \* how each write ended
    puts,             \* history: the PutObject sends of each write
    ndisc,            \* history: GetBucketLocation sends of each write
    retSince,         \* history: regions ensureRegion returned since the last reset
    lastRet,          \* history: the region ensureRegion returned last, NoVal after a reset
    faults,           \* environment: sends rejected so far
    okSince,          \* history: a write succeeded and no mismatch since
    after,            \* history: the write started while okSince held and has
                      \* not sent its first put
    request,          \* req.method and req.body.image of each request
    anaErr,           \* history: what analyzeImage threw for the request
    response,         \* what the handler answered, until the response is gone
    overlapped        \* history: another write was under way at some time
                      \* since this write started

config == <<preferredRegion, bucketLocation>>
CanReject == faults < MaxFaults
Reject == faults' = faults + 1
cache == <<resolvedRegion, s3Client>>
ensured == <<ret, retSince, lastRet>>
consts == <<objectKey, body, overlapped>>
http == <<request, anaErr, response>>

vars == <<config, cache, pc, consts, ensured, region, client, result, puts,
          ndisc, faults, okSince, after, http>>

Init ==
    /\ preferredRegion \in PreferredRegions
    /\ bucketLocation \in BucketLocations
    /\ resolvedRegion = NoVal
    /\ s3Client = NoClient
    /\ pc = [w \in Writes |-> "new"]
    /\ objectKey = [w \in Writes |-> NoKey]
    /\ body = [w \in Writes |-> NoVal]
    /\ ret = [w \in Writes |-> NoVal]
    /\ region = [w \in Writes |-> NoVal]
    /\ client = [w \in Writes |-> NoClient]
    /\ result = [w \in Writes |-> NoResult]
    /\ puts = [w \in Writes |-> <<>>]
    /\ ndisc = [w \in Writes |-> [pre |-> 0, re |-> 0]]
    /\ retSince = {}
    /\ lastRet = NoVal
    /\ faults = 0
    /\ okSince = FALSE
    /\ after = [w \in Writes |-> FALSE]
    /\ request = [w \in Writes |-> NoRequest]
    /\ anaErr = [w \in Writes |-> NoError]
    /\ response = [w \in Writes |-> NoResponse]
    /\ overlapped = [w \in Writes |-> FALSE]

(* ------------------------------------------------------------------ *)
(* ensureRegion                                                        *)
(* ------------------------------------------------------------------ *)

\* generateObjectKey: folder prefix, timestamp and random id of the n-th call
generateObjectKey(n) == [folder |-> "person_image", id |-> n]

\* the cache test left out
EnsureNeverCached == FALSE

\* line 45: if (resolvedRegion) return resolvedRegion
EnsureCached == Truthy(resolvedRegion)

\* line 46: if (preferredRegion)
EnsureFixed == Truthy(preferredRegion)

\* the configured region cached as it was written
FixedRegionRaw == preferredRegion

\* line 47: normalizeRegion(preferredRegion) || 'us-east-1'
FixedRegionValue ==
    LET n == normalizeRegion(preferredRegion)
    IN  IF Truthy(n) THEN n ELSE "us-east-1"

\* lines 60 and 137: normalizeRegion(result.LocationConstraint) || 'us-east-1'
DiscoveredRegionValue(location) ==
    LET n == normalizeRegion(location)
    IN  IF Truthy(n) THEN n ELSE "us-east-1"

\* line 64: the region cached when the lookup throws
DiscoveryFallback == "us-east-1"

\* ensureRegion returns r to write w (the caller resumes at pcNext)
EnsureReturn(w, r, pcNext) ==
    /\ ret' = [ret EXCEPT ![w] = r]
    /\ retSince' = retSince \cup {r}
    /\ lastRet' = r
    /\ pc' = [pc EXCEPT ![w] = pcNext]

\* a call of ensureRegion by write w, up to its return or its first await
EnsureCall(w, pcSync, pcAsync) ==
    IF EnsureCached
    THEN /\ EnsureReturn(w, resolvedRegion, pcSync)
         /\ UNCHANGED <<resolvedRegion, ndisc>>
    ELSE IF EnsureFixed
    THEN /\ resolvedRegion' = FixedRegionValue
         /\ EnsureReturn(w, FixedRegionValue, pcSync)
         /\ UNCHANGED ndisc
    ELSE /\ ndisc' = [ndisc EXCEPT ![w].pre = @ + 1]
         /\ pc' = [pc EXCEPT ![w] = pcAsync]
         /\ UNCHANGED <<resolvedRegion, ensured>>

\* lines 56-61: the lookup answers with the bucket's LocationConstraint
EnsureDiscovered(w, pcNext) ==
    /\ resolvedRegion' = DiscoveredRegionValue(bucketLocation)
    /\ EnsureReturn(w, DiscoveredRegionValue(bucketLocation), pcNext)

\* lines 62-66: the lookup throws
EnsureFellBack(w, pcNext) ==
    /\ resolvedRegion' = DiscoveryFallback
    /\ EnsureReturn(w, DiscoveryFallback, pcNext)

(* ------------------------------------------------------------------ *)
(* persistScanResult, one action per stretch between two awaits        *)
(* ------------------------------------------------------------------ *)

\* Receive, SendPut1 and Settle read and write nothing the other requests
\* share (the request's own locals, its promise, its response), so they
\* commute with every step of the other requests: a request that stands
\* before SendPut1 or Settle takes it first, and a request is received
\* right before the step that ends its analysis.
LocalStep(w) == pc[w] \in {"analyzing", "haveClient", "done"}
Shared == \A w \in Writes : ~LocalStep(w)

\* the image fields the w-th request can carry
RequestImages(w) == {ImgMissing, ImgEmpty, ImgNumber, ImgString(ImageOf(w))}

\* scan.ts lines 9-21 (57-65): the handler up to its first await: the
\* method test, the image test, and handleScan up to the call of the
\* analysis provider (scanService.ts lines 237, 193-198)
Receive(w) ==
    /\ pc[w] = "new"
    /\ Shared
    /\ \A v \in Writes : v < w => pc[v] # "new"
    /\ \E method \in Methods, image \in RequestImages(w) :
          /\ request' = [request EXCEPT ![w] = [method |-> method, image |-> image]]
          /\ IF method # "POST"
             THEN /\ response' = [response EXCEPT ![w] = MethodNotAllowed]
                  /\ pc' = [pc EXCEPT ![w] = "done"]
             ELSE IF ImageRejected(image)
             THEN /\ response' = [response EXCEPT ![w] = BadRequest]
                  /\ pc' = [pc EXCEPT ![w] = "done"]
             ELSE /\ pc' = [pc EXCEPT ![w] = "analyzing"]
                  /\ UNCHANGED response
    /\ UNCHANGED <<config, cache, consts, ensured, region, client, result,
                   puts, ndisc, faults, okSince, after, anaErr>>

\* the rejection goes on as if the analysis had only been logged
AnalysisThrowsOn(w, error) ==
    /\ anaErr' = [anaErr EXCEPT ![w] = error]
    /\ UNCHANGED <<response, pc>>

\* line 237 throws out of handleScan into the catch block of the handler
AnalysisThrows(w, error) ==
    /\ anaErr' = [anaErr EXCEPT ![w] = error]
    /\ response' = [response EXCEPT ![w] = HandlerCatch(error)]
    /\ pc' = [pc EXCEPT ![w] = "done"]

\* line 237: the analysis provider rejects, or answers without text
AnalysisFail(w) ==
    /\ pc[w] = "analyzing"
    /\ \E error \in AnalysisErrors : AnalysisThrows(w, error)
    /\ UNCHANGED <<config, cache, consts, ensured, region, client, result,
                   puts, ndisc, faults, okSince, after, request>>

\* line 237 resumes with the analysis and line 238 calls persistScanResult;
\* lines 101-103: key, body, and the call of ensureRegion
Start(w) ==
    /\ pc[w] = "analyzing"
    /\ UNCHANGED faults
    /\ body' = [body EXCEPT ![w] = base64ToBuffer(request[w].image.text)]
    /\ objectKey' = [objectKey EXCEPT ![w] = generateObjectKey(w)]
    /\ overlapped' = [v \in Writes |->
          IF v = w THEN \E u \in Writes : objectKey[u] # NoKey
          ELSE overlapped[v] \/ objectKey[v] # NoKey]
    /\ after' = [after EXCEPT ![w] = okSince]
    /\ EnsureCall(w, "ensured", "disc1")
    /\ UNCHANGED <<config, http, s3Client, region, client, result, puts, okSince>>

\* line 103, the lookup of ensureRegion answers
Disc1Ok(w) ==
    /\ pc[w] = "disc1"
    /\ Shared
    /\ UNCHANGED faults
    /\ EnsureDiscovered(w, "ensured")
    /\ UNCHANGED <<config, http, s3Client, consts, region, client, result, puts,
                   ndisc, okSince, after>>

\* line 103, the lookup of ensureRegion throws
Disc1Fail(w) ==
    /\ pc[w] = "disc1"
    /\ Shared
    /\ CanReject /\ Reject
    /\ \E e \in DiscoveryErrors : EnsureFellBack(w, "ensured")
    /\ UNCHANGED <<config, http, s3Client, consts, region, client, result, puts,
                   ndisc, okSince, after>>

\* line 103 resumes (let region), line 104 calls getS3Client (lines 70-71)
GetClient(w) ==
    /\ pc[w] = "ensured"
    /\ Shared
    /\ UNCHANGED faults
    /\ region' = [region EXCEPT ![w] = ret[w]]
    /\ IF s3Client # NoClient
       THEN /\ client' = [client EXCEPT ![w] = s3Client]
            /\ pc' = [pc EXCEPT ![w] = "haveClient"]
            /\ ret' = [ret EXCEPT ![w] = NoVal]
            /\ UNCHANGED <<resolvedRegion, retSince, lastRet, ndisc>>
       ELSE /\ EnsureCall(w, "ensured2", "disc2")
            /\ UNCHANGED client
    /\ UNCHANGED <<config, http, s3Client, consts, result, puts, okSince, after>>

\* line 71, the lookup of ensureRegion answers
Disc2Ok(w) ==
    /\ pc[w] = "disc2"
    /\ Shared
    /\ UNCHANGED faults
    /\ EnsureDiscovered(w, "ensured2")
    /\ UNCHANGED <<config, http, s3Client, consts, region, client, result, puts,
                   ndisc, okSince, after>>

\* line 71, the lookup of ensureRegion throws
Disc2Fail(w) ==
    /\ pc[w] = "disc2"
    /\ Shared
    /\ CanReject /\ Reject
    /\ \E e \in DiscoveryErrors : EnsureFellBack(w, "ensured2")
    /\ UNCHANGED <<config, http, s3Client, consts, region, client, result, puts,
                   ndisc, okSince, after>>

\* lines 72-78: getS3Client resumes, builds and caches the client
BuildClient(w) ==
    /\ pc[w] = "ensured2"
    /\ Shared
    /\ UNCHANGED faults
    /\ s3Client' = NewClient(ret[w], 0)
    /\ client' = [client EXCEPT ![w] = s3Client']
    /\ ret' = [ret EXCEPT ![w] = NoVal]
    /\ pc' = [pc EXCEPT ![w] = "haveClient"]
    /\ UNCHANGED <<config, http, resolvedRegion, consts, retSince, lastRet, region,
                   result, puts, ndisc, okSince, after>>

\* the send goes through the cached handle as it stands, not through c
PutSendShared(w, c) ==
    [key |-> objectKey[w], body |-> body[w], client |-> s3Client, outcome |-> Pending]

\* one PutObjectCommand send of write w through client c
PutSend(w, c) ==
    [key |-> objectKey[w], body |-> body[w], client |-> c, outcome |-> Pending]

\* the outcome of the send in flight
PutSettled(w, outcome) ==
    [puts EXCEPT ![w] = [@ EXCEPT ![Len(@)].outcome = outcome]]

\* lines 104-114: line 104 resumes (let client) and the first put is sent
SendPut1(w) ==
    /\ pc[w] = "haveClient"
    /\ UNCHANGED faults
    /\ puts' = [puts EXCEPT ![w] = Append(@, PutSend(w, client[w]))]
    /\ after' = [after EXCEPT ![w] = FALSE]
    /\ pc' = [pc EXCEPT ![w] = "put1"]
    /\ UNCHANGED <<config, http, cache, consts, ensured, region, client, result,
                   ndisc, okSince>>

\* line 166: return { objectKey, region }
Outcome(w) == [kind |-> "ok", objectKey |-> objectKey[w], region |-> region[w]]

\* a throw out of persistScanResult
Failure(error, from) == [kind |-> "fail", error |-> error, from |-> from]

\* persistScanResult has ended with res: line 238 of handleScan resumes with
\* the outcome (lines 240-250, then scan.ts line 22) or with the throw
\* (scan.ts lines 24-28)
HandlerAnswer(w, res) ==
    response' = [response EXCEPT ![w] =
        IF res.kind = "ok"
        THEN OkResponse(ScanResult(analyzeImage(request[w].image.text),
                                   res.objectKey, res.region))
        ELSE HandlerCatch(res.error)]

\* lines 107-114 resolve, line 166 returns
Put1Ok(w) ==
    /\ pc[w] = "put1"
    /\ Shared
    /\ UNCHANGED faults
    /\ puts' = PutSettled(w, Sent)
    /\ result' = [result EXCEPT ![w] = Outcome(w)]
    /\ okSince' = TRUE
    /\ HandlerAnswer(w, result'[w])
    /\ pc' = [pc EXCEPT ![w] = "done"]
    /\ UNCHANGED <<config, request, anaErr, cache, consts, ensured, region, client, ndisc, after>>

\* lines 115-135: mismatch signature: reset the cache, send the lookup
Put1Mismatch(w) ==
    /\ pc[w] = "put1"
    /\ Shared
    /\ CanReject /\ Reject
    /\ \E error \in PutErrors :
          /\ isRegionMismatch(error)
          /\ puts' = PutSettled(w, Rejected(error))
    /\ s3Client' = NoClient
    /\ resolvedRegion' = NoVal
    /\ retSince' = {}
    /\ lastRet' = NoVal
    /\ ndisc' = [ndisc EXCEPT ![w].re = @ + 1]
    /\ okSince' = FALSE
    /\ after' = [v \in Writes |-> FALSE]
    /\ pc' = [pc EXCEPT ![w] = "redisc"]
    /\ UNCHANGED <<config, http, consts, ret, region, client, result>>

\* any other error is rethrown after the cache has been reset as well
Put1FailResets(w) ==
    /\ pc[w] = "put1"
    /\ Shared
    /\ CanReject /\ Reject
    /\ \E error \in PutErrors :
          /\ ~isRegionMismatch(error)
          /\ puts' = PutSettled(w, Rejected(error))
          /\ result' = [result EXCEPT ![w] = Failure(error, "put1")]
    /\ HandlerAnswer(w, result'[w])
    /\ pc' = [pc EXCEPT ![w] = "done"]
    /\ s3Client' = NoClient
    /\ resolvedRegion' = NoVal
    /\ UNCHANGED <<config, request, anaErr, consts, ensured, region, client, ndisc,
                   okSince, after>>

\* lines 160-163: any other error is rethrown
Put1Fail(w) ==
    /\ pc[w] = "put1"
    /\ Shared
    /\ CanReject /\ Reject
    /\ \E error \in PutErrors :
          /\ ~isRegionMismatch(error)
          /\ puts' = PutSettled(w, Rejected(error))
          /\ result' = [result EXCEPT ![w] = Failure(error, "put1")]
    /\ HandlerAnswer(w, result'[w])
    /\ pc' = [pc EXCEPT ![w] = "done"]
    /\ UNCHANGED <<config, request, anaErr, cache, consts, ensured, region, client, ndisc,
                   okSince, after>>

\* lines 137-155: the lookup answered: new client, the retry is sent
RediscOk(w) ==
    /\ pc[w] = "redisc"
    /\ Shared
    /\ UNCHANGED faults
    /\ region' = [region EXCEPT ![w] = DiscoveredRegionValue(bucketLocation)]
    /\ s3Client' = NewClient(region'[w], w)
    /\ client' = [client EXCEPT ![w] = s3Client']
    /\ puts' = [puts EXCEPT ![w] = Append(@, PutSend(w, client'[w]))]
    /\ pc' = [pc EXCEPT ![w] = "put2"]
    /\ UNCHANGED <<config, http, resolvedRegion, consts, ensured, result, ndisc,
                   okSince, after>>

\* lines 134-136, 156-158: the lookup threw inside the retry's try block
RediscFail(w) ==
    /\ pc[w] = "redisc"
    /\ Shared
    /\ CanReject /\ Reject
    /\ \E error \in DiscoveryErrors :
          result' = [result EXCEPT ![w] = Failure(error, "redisc")]
    /\ HandlerAnswer(w, result'[w])
    /\ pc' = [pc EXCEPT ![w] = "done"]
    /\ UNCHANGED <<config, request, anaErr, cache, consts, ensured, region, client, puts, ndisc,
                   okSince, after>>

\* lines 148-155 resolve, line 166 returns
Put2Ok(w) ==
    /\ pc[w] = "put2"
    /\ Shared
    /\ UNCHANGED faults
    /\ puts' = PutSettled(w, Sent)
    /\ result' = [result EXCEPT ![w] = Outcome(w)]
    /\ okSince' = TRUE
    /\ HandlerAnswer(w, result'[w])
    /\ pc' = [pc EXCEPT ![w] = "done"]
    /\ UNCHANGED <<config, request, anaErr, cache, consts, ensured, region, client, ndisc, after>>

\* a retry rejected with a mismatch signature is followed by another
\* rediscovery
RetryAgain(error) == IF isRegionMismatch(error) THEN "redisc" ELSE "done"

\* lines 156-158: the retry threw, the write is over whatever the error
RetryEnd(error) == "done"

\* the outer catch's error rethrown instead of retryError
RetryThrownOuter(error, retryError) == Failure(error, "put2")

\* line 158: throw retryError (error: what the first put rejected with)
RetryThrown(error, retryError) == Failure(retryError, "put2")

\* lines 156-158: the retry threw: rethrow, whatever its signature
Put2Fail(w) ==
    /\ pc[w] = "put2"
    /\ Shared
    /\ CanReject /\ Reject
    /\ \E error \in PutErrors :
          /\ puts' = PutSettled(w, Rejected(error))
          /\ result' = [result EXCEPT ![w] =
                            RetryThrown(puts[w][1].outcome.error, error)]
          /\ okSince' = (okSince /\ ~isRegionMismatch(error))
          /\ after' = IF isRegionMismatch(error)
                      THEN [v \in Writes |-> FALSE] ELSE after
          /\ pc' = [pc EXCEPT ![w] = RetryEnd(error)]
    /\ HandlerAnswer(w, result'[w])
    /\ UNCHANGED <<config, request, anaErr, cache, consts, ensured, region, client, ndisc>>

\* the response is sent and the request is over: its locals are gone
Settle(w) ==
    /\ pc[w] = "done"
    /\ UNCHANGED faults
    /\ pc' = [pc EXCEPT ![w] = "closed"]
    /\ request' = [request EXCEPT ![w] = NoRequest]
    /\ anaErr' = [anaErr EXCEPT ![w] = NoError]
    /\ response' = [response EXCEPT ![w] = NoResponse]
    /\ objectKey' = [objectKey EXCEPT ![w] = NoKey]
    /\ overlapped' = [overlapped EXCEPT ![w] = FALSE]
    /\ body' = [body EXCEPT ![w] = NoVal]
    /\ ret' = [ret EXCEPT ![w] = NoVal]
    /\ region' = [region EXCEPT ![w] = NoVal]
    /\ client' = [client EXCEPT ![w] = NoClient]
    /\ result' = [result EXCEPT ![w] = NoResult]
    /\ puts' = [puts EXCEPT ![w] = <<>>]
    /\ ndisc' = [ndisc EXCEPT ![w] = [pre |-> 0, re |-> 0]]
    /\ after' = [after EXCEPT ![w] = FALSE]
    /\ UNCHANGED <<config, cache, retSince, lastRet, okSince>>

(* ------------------------------------------------------------------ *)
(* Vocabulary of the properties                                        *)
(* ------------------------------------------------------------------ *)

\* no persistScanResult call is under way
Quiescent == \A w \in Writes : pc[w] \in {"new", "closed"}

\* the cached client and the cached region are both unset, or both set and
\* the client is bound to the cached region
Paired ==
    \/ resolvedRegion = NoVal /\ s3Client = NoClient
    \/ resolvedRegion # NoVal /\ s3Client # NoClient
                              /\ s3Client.region = resolvedRegion

\* the region-mismatch signatures as the specification lists them
HasMismatchSignature(e) ==
    \/ e.message = "Custom endpoint is not compatible"
    \/ e.name = "PermanentRedirect"
    \/ e.status = 301

\* the n-th put of write w was rejected with / without a mismatch signature
PutMismatched(w, n) ==
    /\ Len(puts[w]) >= n
    /\ puts[w][n].outcome.kind = "error"
    /\ HasMismatchSignature(puts[w][n].outcome.error)

PutFailedOtherwise(w, n) ==
    /\ Len(puts[w]) >= n
    /\ puts[w][n].outcome.kind = "error"
    /\ ~HasMismatchSignature(puts[w][n].outcome.error)

PutSucceeded(w, n) ==
    /\ Len(puts[w]) >= n
    /\ puts[w][n].outcome.kind = "ok"

\* the region a successful lookup of the bucket's location stands for
RediscoveredRegion ==
    CASE bucketLocation = "EU" -> "eu-west-1"
      [] bucketLocation \in {NoVal, ""} -> "us-east-1"
      [] OTHER -> bucketLocation

\* the configured fixed region, normalized
NormalizedFixed ==
    CASE preferredRegion = "EU" -> "eu-west-1"
      [] OTHER -> preferredRegion

\* write w calls ensureRegion in this step (line 103, or line 71 when
\* getS3Client finds no cached client)
EnsureCallBy(w) == Start(w) \/ (GetClient(w) /\ s3Client = NoClient)

(* ------------------------------------------------------------------ *)
(* Properties                                                          *)
(* ------------------------------------------------------------------ *)

\* C1: between operations the cached client and the cached region form a
\* matching pair: both unset, or both set with the client bound to the
\* cached region.
C1_CachePaired == Quiescent => Paired

\* C2: a write whose first put is rejected with a mismatch signature and
\* whose retry succeeds returns the retry's outcome (same key, rediscovered
\* region), and on its return resolvedRegion is that rediscovered region.
C2_RetryOutcomeCached ==
    \A w \in Writes :
        (pc[w] = "done" /\ PutMismatched(w, 1) /\ PutSucceeded(w, 2)) =>
            /\ result[w].kind = "ok"
            /\ result[w].objectKey = puts[w][2].key
            /\ result[w].region = RediscoveredRegion
            /\ resolvedRegion = RediscoveredRegion

\* C3: a write that started after a successful write, with no mismatch since,
\* sends no lookup before its first put.
C3_NoDiscoveryAfterSuccess ==
    \A w \in Writes : after[w] => ndisc[w].pre = 0

\* C4: with no fixed region configured, a write never fails with the error
\* of a lookup: whatever it throws was thrown by one of its puts.
C4_LookupFailureNotSurfaced ==
    (preferredRegion = "") =>
        \A w \in Writes :
            result[w].kind = "fail" => result[w].from \in {"put1", "put2"}

\* C5: a write whose first put was rejected with a mismatch signature has,
\* when it ends, sent exactly one retry, with the same key and payload,
\* through a client bound to the rediscovered region.
C5_ExactlyOneRetry ==
    \A w \in Writes :
        (pc[w] = "done" /\ PutMismatched(w, 1)) =>
            /\ Len(puts[w]) = 2
            /\ puts[w][2].key = puts[w][1].key
            /\ puts[w][2].body = puts[w][1].body
            /\ puts[w][2].client.region = RediscoveredRegion

\* C6: a write never sends more than two puts, and when both were rejected
\* with mismatch signatures it fails with the error of the retry.
C6_RetryErrorNoThirdPut ==
    \A w \in Writes :
        /\ Len(puts[w]) <= 2
        /\ (pc[w] = "done" /\ PutMismatched(w, 1) /\ PutMismatched(w, 2)) =>
              /\ result[w].kind = "fail"
              /\ result[w].error = puts[w][2].outcome.error

\* a write ended after two puts that were both rejected with mismatch
\* signatures, with different errors
C6_Witness ==
    \E w \in Writes :
        /\ pc[w] = "done" /\ PutMismatched(w, 1) /\ PutMismatched(w, 2)
        /\ puts[w][1].outcome.error # puts[w][2].outcome.error

\* C7: once the first put of a write is rejected without a mismatch
\* signature the write has failed with that very error, with no second put
\* and no lookup of the retry path.
C7_OtherErrorImmediate ==
    \A w \in Writes :
        PutFailedOtherwise(w, 1) =>
            /\ pc[w] = "done"
            /\ result[w].kind = "fail"
            /\ result[w].error = puts[w][1].outcome.error
            /\ Len(puts[w]) = 1
            /\ ndisc[w].re = 0

\* a first put was rejected with AccessDenied while another write is under way
C7_Witness ==
    \E w \in Writes :
        /\ PutFailedOtherwise(w, 1)
        /\ \E v \in Writes : pc[v] \notin {"new", "analyzing", "done", "closed"}

\* C8: with a fixed region configured no lookup is ever sent, and from the
\* first write on the cached region is the normalized fixed region.
C8_FixedNeverDiscovers ==
    Truthy(preferredRegion) =>
        /\ \A w \in Writes : ndisc[w].pre = 0 /\ ndisc[w].re = 0
        /\ (\E w \in Writes : objectKey[w] # NoKey) => resolvedRegion = NormalizedFixed

\* C9: with a fixed region configured every call of ensureRegion returns the
\* normalized fixed region and sends no lookup.
C9_FixedRegionReturned ==
    Truthy(preferredRegion) =>
        \A w \in Writes :
            /\ pc[w] \in {"ensured", "ensured2"} => ret[w] = NormalizedFixed
            /\ pc[w] \notin {"disc1", "disc2"}
            /\ ndisc[w].pre = 0

\* ensureRegion has returned the normalized alias to a write that called it
\* after another write's mismatch had reset the cache
C9_Witness ==
    /\ preferredRegion = "EU"
    /\ \E w, v \in Writes :
          /\ pc[w] \in {"ensured", "ensured2"} /\ ret[w] = "eu-west-1"
          /\ pc[v] \in {"redisc", "put2"}

\* C10 as stated: a call of ensureRegion made after a call has returned, with
\* no reset since, sends no lookup and returns the same region as every call
\* that returned before it.
C10_LaterCallsSame ==
    [][\A w \in Writes :
          (EnsureCallBy(w) /\ retSince # {}) =>
              /\ ndisc' = ndisc
              /\ retSince = {ret'[w]}]_vars

\* C10 amended: such a call sends no lookup and returns the region that the
\* call which returned last had returned.
C10_LaterCallsCached ==
    [][\A w \in Writes :
          (EnsureCallBy(w) /\ retSince # {}) =>
              /\ ndisc' = ndisc
              /\ ret'[w] = lastRet
              /\ pc'[w] \in {"ensured", "ensured2"}]_vars

\* a call made from getS3Client has returned from the cache after two
\* overlapping lookups had returned different regions
C10_Witness ==
    \E w \in Writes :
        /\ pc[w] = "ensured2"
        /\ ndisc[w].pre = 1
        /\ Cardinality(retSince) = 2

\* the image field is missing, empty or not a string
InvalidImage(image) == image.type # "string" \/ image.text = <<>>

\* request w is received in this step
Received(w) == pc[w] = "new" /\ pc'[w] # "new"

\* the step leaves storage alone: no lookup, no put, the cache as it was
StorageUntouched == UNCHANGED <<resolvedRegion, s3Client, puts, ndisc>>

\* C11 as stated: a request whose image field is missing, empty or not a
\* string is answered with status 400 at once, the analysis is not called,
\* no lookup and no put is sent, and the cache stays as it was.
C11_InvalidImage400 ==
    [][\A w \in Writes :
          (Received(w) /\ InvalidImage(request'[w].image)) =>
              /\ response'[w].status = 400
              /\ pc'[w] = "done"
              /\ StorageUntouched]_vars

\* C11 amended: a POST request whose image field is missing, empty or not a
\* string is answered with status 400 at once, the analysis is not called,
\* no lookup and no put is sent, and the cache stays as it was.
C11_InvalidPostImage400 ==
    [][\A w \in Writes :
          (Received(w) /\ request'[w].method = "POST"
                       /\ InvalidImage(request'[w].image)) =>
              /\ response'[w].status = 400
              /\ pc'[w] = "done"
              /\ anaErr'[w] = NoError
              /\ StorageUntouched]_vars

\* a POST request with image 123 has been answered 400 while the cache holds
\* a region and a client and another request is writing
C11_Witness ==
    \E w, v \in Writes :
        /\ pc[w] = "done"
        /\ request[w] = [method |-> "POST", image |-> ImgNumber]
        /\ response[w].status = 400
        /\ resolvedRegion # NoVal /\ s3Client # NoClient
        /\ pc[v] = "put1"

\* request w is a POST request with a non-empty string image
ValidRequest(w) ==
    request[w].method = "POST" /\ ~InvalidImage(request[w].image)

\* the analysis of request w succeeded / its object write succeeded
AnalysisSucceeded(w) == anaErr[w] = NoError
WriteSucceeded(w) == puts[w] # <<>> /\ puts[w][Len(puts[w])].outcome.kind = "ok"

\* the failure of request w that came first: of the analysis, else of the write
FirstFailure(w) == IF anaErr[w] # NoError THEN anaErr[w] ELSE result[w].error

\* C12: a POST request with a valid string image is answered 200 with
\* analysis, recordId and s3Url exactly when its analysis and its write both
\* succeeded; otherwise it is answered 500 with a detail message only, the
\* message of the failure that came first (the handler's stock message when
\* the thrown value has none).
C12_OkIffBothSucceeded ==
    \A w \in Writes :
        (pc[w] = "done" /\ ValidRequest(w)) =>
            IF AnalysisSucceeded(w) /\ WriteSucceeded(w)
            THEN /\ response[w].status = 200
                 /\ DOMAIN response[w] = {"status", "analysis", "recordId", "s3Url"}
            ELSE /\ response[w].status = 500
                 /\ DOMAIN response[w] = {"status", "detail"}
                 /\ response[w].detail =
                        IF FirstFailure(w).message # NoVal
                        THEN FirstFailure(w).message
                        ELSE "Khong the xu ly yeu cau."

\* a valid request whose analysis provider was unreachable has been answered
\* 500 while another request is writing
C12_Witness ==
    \E w, v \in Writes :
        /\ pc[w] = "done" /\ ValidRequest(w)
        /\ anaErr[w] = ErrUnreachable
        /\ response[w] = [status |-> 500, detail |-> "fetch failed"]
        /\ pc[v] = "put2"

\* request w has sent nothing to storage
NothingSent(w) ==
    puts[w] = <<>> /\ ndisc[w] = [pre |-> 0, re |-> 0] /\ objectKey[w] = NoKey

\* C13 as stated: the analysis and the write of a request are independent,
\* the write is issued whatever the analysis comes to: a valid request that
\* has been answered has sent its put, also when its analysis failed.
C13_WriteWhateverAnalysis ==
    \A w \in Writes :
        (pc[w] = "done" /\ ValidRequest(w)) => puts[w] # <<>>

\* C13 amended: the write is issued only after the analysis has succeeded
\* and nothing is compensated: a request whose analysis failed is answered
\* with the error and has sent nothing to storage, and a request whose
\* analysis succeeded and whose write failed is answered with the error
\* with none of its puts accepted.
C13_WriteOnlyAfterAnalysis ==
    \A w \in Writes :
        /\ anaErr[w] # NoError =>
              /\ pc[w] = "done"
              /\ response[w].status = 500
              /\ NothingSent(w)
        /\ (pc[w] = "done" /\ ValidRequest(w) /\ AnalysisSucceeded(w)
                           /\ ~WriteSucceeded(w)) =>
              /\ response[w].status = 500
              /\ puts[w] # <<>>
              /\ \A n \in 1..Len(puts[w]) : puts[w][n].outcome.kind = "error"

\* the analysis of a request succeeded and its write failed with AccessDenied
\* on the first put: answered 500
C13_Witness ==
    \E w \in Writes :
        /\ pc[w] = "done" /\ ValidRequest(w) /\ AnalysisSucceeded(w)
        /\ Len(puts[w]) = 1
        /\ puts[w][1].outcome = [kind |-> "error", error |-> ErrDenied]
        /\ response[w] = [status |-> 500, detail |-> "Access Denied"]

\* the object key of write w
OwnKey(w) == [folder |-> "person_image", id |-> w]

\* C14: whatever the other writes do to the shared cache, a write sends at
\* most two puts, each with its own object key (which no other write uses),
\* its second put follows a mismatch rejection of its first and goes through
\* the client this very write built in its retry path, and it ends in
\* success exactly when its last put was accepted.
C14_RetrySelfContained ==
    \A w \in Writes :
        /\ Len(puts[w]) <= 2
        /\ \A n \in 1..Len(puts[w]) :
              /\ puts[w][n].key = OwnKey(w)
              /\ \A v \in Writes \ {w} :
                    \A k \in 1..Len(puts[v]) : puts[v][k].key # puts[w][n].key
        /\ Len(puts[w]) = 2 =>
              /\ PutMismatched(w, 1)
              /\ puts[w][2].client.by = w
              /\ puts[w][2].client = client[w]
        /\ (pc[w] = "done" /\ puts[w] # <<>>) =>
              /\ result[w].kind \in {"ok", "fail"}
              /\ result[w].kind = "ok" <=> WriteSucceeded(w)

\* two writes have both invalidated the cache and rediscovered: both retries
\* are in flight, each through the client of its own write, and the cache
\* holds the client of one of them
C14_Witness ==
    \E w, v \in Writes :
        /\ w # v
        /\ pc[w] = "put2" /\ pc[v] = "put2"
        /\ puts[w][2].client.by = w /\ puts[v][2].client.by = v
        /\ s3Client = puts[v][2].client

\* the states of a write in the order persistScanResult passes them
Rank(at) ==
    CASE at = "new" -> 0
      [] at = "analyzing" -> 1
      [] at = "disc1" -> 2
      [] at = "ensured" -> 3
      [] at = "disc2" -> 4
      [] at = "ensured2" -> 5
      [] at = "haveClient" -> 6
      [] at = "put1" -> 7
      [] at = "redisc" -> 8
      [] at = "put2" -> 9
      [] at = "done" -> 10
      [] at = "closed" -> 11

\* persistScanResult has been called for w and has neither returned nor thrown
Writing(w) == Rank(pc[w]) \in 2..9

\* write w has returned an outcome (SUCCESS) or thrown (FAIL)
Ended(w) == pc[w] = "done" /\ result[w].kind \in {"ok", "fail"}

\* C15: when every provider call returns or fails, no write stays under way
\* for ever, and a write leaves that condition only by ending, in SUCCESS or
\* in FAIL; on its way it never goes back to an earlier state and sends at
\* most one lookup of the retry path.
C15_WriteTerminates ==
    /\ \A w \in Writes : []<>(~Writing(w))
    /\ [][\A w \in Writes :
             /\ (Writing(w) /\ ~Writing(w)') => Ended(w)'
             /\ pc'[w] # pc[w] => Rank(pc'[w]) > Rank(pc[w])
             /\ ndisc'[w].re <= 1]_vars

\* a write has ended after it went through the whole retry path
C15_Witness ==
    \E w \in Writes :
        /\ Ended(w)
        /\ ndisc[w].re = 1
        /\ Len(puts[w]) = 2

\* what the specification says normalization yields for a location
Normalized(location) ==
    CASE location \in {NoVal, ""} -> "us-east-1"
      [] location = "EU" -> "eu-west-1"
      [] OTHER -> location

\* C16: wherever the code normalizes a value (the fixed region at line 47,
\* the answer of a lookup at lines 60 and 137), a null or empty value gives
\* us-east-1, the alias EU gives eu-west-1 and any other value is kept: the
\* region cached before any lookup has failed, and the region a retry is
\* sent with, are the normalized configured region or bucket location.
C16_NormalizeRegion ==
    /\ (resolvedRegion # NoVal /\ faults = 0) =>
          resolvedRegion = IF preferredRegion # ""
                           THEN Normalized(preferredRegion)
                           ELSE Normalized(bucketLocation)
    /\ \A w \in Writes :
          pc[w] = "put2" => region[w] = Normalized(bucketLocation)

\* a lookup has answered with an empty location and the baseline region has
\* been cached for it
C16_Witness ==
    /\ preferredRegion = "" /\ bucketLocation = ""
    /\ faults = 0
    /\ resolvedRegion = "us-east-1"
    /\ \E w \in Writes : pc[w] = "ensured" /\ ndisc[w].pre = 1

\* C17: the URL of a 200 response is https, its host is the bucket name
\* followed by s3.amazonaws.com when the region of the write's outcome is
\* us-east-1 and by s3.<region>.amazonaws.com for any other region, and its
\* path is the object key of the outcome, which is also the recordId.
C17_UrlFromOutcome ==
    \A w \in Writes :
        (pc[w] = "done" /\ response[w].status = 200) =>
            /\ result[w].kind = "ok"
            /\ response[w].recordId = result[w].objectKey
            /\ response[w].s3Url.scheme = "https"
            /\ response[w].s3Url.path = response[w].recordId
            /\ response[w].s3Url.host =
                   IF result[w].region = "us-east-1"
                   THEN <<"face-bucket", "s3", "amazonaws", "com">>
                   ELSE <<"face-bucket", "s3", result[w].region, "amazonaws", "com">>

\* a request has been answered 200 with a URL of the rediscovered region
\* eu-west-1 after its retry succeeded
C17_Witness ==
    \E w \in Writes :
        /\ pc[w] = "done" /\ response[w].status = 200
        /\ Len(puts[w]) = 2
        /\ response[w].s3Url.host = <<"face-bucket", "s3", "eu-west-1", "amazonaws", "com">>
        /\ response[w].s3Url.path = OwnKey(w)

\* C18: the region in the outcome of a successful write is the region of the
\* client its accepted put was sent through.
C18_OutcomeRegionIsClientRegion ==
    \A w \in Writes :
        (pc[w] = "done" /\ result[w].kind = "ok") =>
            result[w].region = puts[w][Len(puts[w])].client.region

\* C19 as stated: when the first put of a write has been rejected without a
\* mismatch signature, the cache holds the region the write resolved and the
\* client it sent that put through, both set, for the next write to reuse.
C19_CacheIsWhatTheWriteUsed ==
    \A w \in Writes :
        (pc[w] = "done" /\ PutFailedOtherwise(w, 1)) =>
            /\ resolvedRegion # NoVal /\ resolvedRegion = region[w]
            /\ s3Client # NoClient /\ s3Client = puts[w][1].client

\* the first put of w is rejected without a mismatch signature in this step
FailsOtherwise(w) ==
    /\ pc[w] = "put1" /\ pc'[w] = "done"
    /\ result'[w].kind = "fail" /\ result'[w].from = "put1"

\* C19, amended: the step in which the first put of a write fails with a
\* non-mismatch error changes neither the cached region nor the cached
\* client, and neither does the end of that request; if no other write was
\* under way at any time since the write started, the cache after the failure
\* holds the region the write resolved and the client it sent that put
\* through, both set; a write that starts with the region cached sends no
\* lookup and takes the cached region, and takes the cached client when it
\* reaches getS3Client with a client cached.
C19_FailureKeepsCache ==
    /\ [](\A w \in Writes :
            (pc[w] = "done" /\ PutFailedOtherwise(w, 1) /\ ~overlapped[w]) =>
                /\ resolvedRegion # NoVal /\ resolvedRegion = region[w]
                /\ s3Client # NoClient /\ s3Client = puts[w][1].client)
    /\ [][\A w \in Writes :
            /\ FailsOtherwise(w) => cache' = cache
            /\ (pc[w] = "done" /\ pc'[w] = "closed") => cache' = cache
            /\ (pc[w] = "analyzing" /\ pc'[w] \notin {"analyzing", "done"}
                   /\ resolvedRegion # NoVal) =>
                  /\ pc'[w] = "ensured" /\ ret'[w] = resolvedRegion
                  /\ ndisc' = ndisc /\ cache' = cache
            /\ (pc[w] = "ensured" /\ pc'[w] # "ensured"
                   /\ s3Client # NoClient) =>
                  /\ pc'[w] = "haveClient" /\ client'[w] = s3Client
                  /\ ndisc' = ndisc /\ cache' = cache]_vars

\* the second request, started after the first had ended, has had its first
\* put rejected without a mismatch signature; the cache holds what it used
C19_Witness ==
    /\ pc[1] = "closed"
    /\ pc[2] = "done" /\ PutFailedOtherwise(2, 1) /\ ~overlapped[2]
    /\ resolvedRegion = region[2]
    /\ s3Client = puts[2][1].client

Next ==
    \E w \in Writes :
        \/ Receive(w)
        \/ AnalysisFail(w)
        \/ Start(w)
        \/ Disc1Ok(w)
        \/ Disc1Fail(w)
        \/ GetClient(w)
        \/ Disc2Ok(w)
        \/ Disc2Fail(w)
        \/ BuildClient(w)
        \/ SendPut1(w)
        \/ Put1Ok(w)
        \/ Put1Mismatch(w)
        \/ Put1Fail(w)
        \/ RediscOk(w)
        \/ RediscFail(w)
        \/ Put2Ok(w)
        \/ Put2Fail(w)
        \/ Settle(w)

Spec == Init /\ [][Next]_vars

\* every provider call returns or fails, and every continuation that is ready
\* to run is run: the steps of a request that has been received
Proceed(w) ==
    \/ AnalysisFail(w)
    \/ Start(w)
    \/ Disc1Ok(w)
    \/ Disc1Fail(w)
    \/ GetClient(w)
    \/ Disc2Ok(w)
    \/ Disc2Fail(w)
    \/ BuildClient(w)
    \/ SendPut1(w)
    \/ Put1Ok(w)
    \/ Put1Mismatch(w)
    \/ Put1Fail(w)
    \/ RediscOk(w)
    \/ RediscFail(w)
    \/ Put2Ok(w)
    \/ Put2Fail(w)
    \/ Settle(w)

\* normalizeRegion on more inputs: every location a lookup can answer with
\* (null, empty, the baseline, the alias, another region), one request
NormLocations == {NoVal, "", "us-east-1", "EU", "ap-southeast-1"}

NormInit ==
    \E location \in NormLocations, fixed \in PreferredRegions :
        /\ bucketLocation = location
        /\ preferredRegion = fixed
        /\ resolvedRegion = NoVal
        /\ s3Client = NoClient
        /\ pc = [w \in Writes |-> "new"]
        /\ objectKey = [w \in Writes |-> NoKey]
        /\ body = [w \in Writes |-> NoVal]
        /\ ret = [w \in Writes |-> NoVal]
        /\ region = [w \in Writes |-> NoVal]
        /\ client = [w \in Writes |-> NoClient]
        /\ result = [w \in Writes |-> NoResult]
        /\ puts = [w \in Writes |-> <<>>]
        /\ ndisc = [w \in Writes |-> [pre |-> 0, re |-> 0]]
        /\ retSince = {}
        /\ lastRet = NoVal
        /\ faults = 0
        /\ okSince = FALSE
        /\ after = [w \in Writes |-> FALSE]
        /\ request = [w \in Writes |-> NoRequest]
        /\ anaErr = [w \in Writes |-> NoError]
        /\ response = [w \in Writes |-> NoResponse]
        /\ overlapped = [w \in Writes |-> FALSE]

\* the first request alone; with no other request to reset the cache between
\* lines 103 and 104, getS3Client never waits for a lookup of its own
NormNext ==
    \E w \in {1} :
        \/ Receive(w)
        \/ AnalysisFail(w)
        \/ Start(w)
        \/ Disc1Ok(w)
        \/ Disc1Fail(w)
        \/ GetClient(w)
        \/ BuildClient(w)
        \/ SendPut1(w)
        \/ Put1Ok(w)
        \/ Put1Mismatch(w)
        \/ Put1Fail(w)
        \/ RediscOk(w)
        \/ RediscFail(w)
        \/ Put2Ok(w)
        \/ Put2Fail(w)
        \/ Settle(w)

NormSpec == NormInit /\ [][NormNext]_vars

\* the configurations of the liveness runs: a fixed region or discovery, for
\* a bucket of the baseline region
FairInit == Init /\ preferredRegion \in {"", "EU"} /\ bucketLocation = NoVal

FairSpec ==
    FairInit /\ [][Next]_vars /\ WF_vars(\E w \in Writes : Proceed(w))

====
